---- MODULE Spec2Model ----
(***************************************************************************)
(* Model of scripts/ytmusic_search.py: the result normaliser               *)
(* (normalize_results) and the command-line driver (main).                 *)
(*                                                                         *)
(* Python values are tagged records: a str is [type |-> "str", val |-> s], *)
(* None is [type |-> "NoneType"], a list is [type |-> "list", val |-> q]   *)
(* with q a sequence, and a dict is [type |-> "dict", keys |-> k,          *)
(* val |-> f] with k the keys in insertion order and f the mapping.        *)
(***************************************************************************)
EXTENDS Integers, Sequences, FiniteSets, TLC

VARIABLES
    argv,      \* sys.argv: program name followed by the arguments
    pc,        \* position of main()
    stdout,    \* lines printed to standard output, in order
    stderr,    \* diagnostics written by the interpreter for an uncaught failure
    status,    \* exit status of the process, None until it has exited
    calls,     \* calls made to the external search capability, in order
    items,     \* the list object bound to `items` (main's local, the callee's parameter)
    results,   \* the list object bound to `results`
    idx,       \* position of the `for item in items` iteration (1-based)
    npc,       \* position of normalize_results()
    log        \* completed calls of normalize_results: input and returned output

vars == <<argv, pc, stdout, stderr, status, calls, items, results, idx, npc, log>>

mainVars == <<argv, pc, stdout, stderr, status, calls>>

(***************************************************************************)
(* Bounds of the model.                                                    *)
(***************************************************************************)
MaxItems == 2      \* longest list of raw records
MaxArtists == 2    \* longest `artists` list
MaxThumbs == 2     \* longest `thumbnails` list
MaxArgs == 3       \* most command-line arguments
MaxCalls == 3      \* most calls of normalize_results in one harness run

(***************************************************************************)
(* Python values.                                                          *)
(***************************************************************************)
None == [type |-> "NoneType"]

Str(s) == [type |-> "str", val |-> s]

List(q) == [type |-> "list", val |-> q]

Dict(k, f) == [type |-> "dict", keys |-> k, val |-> f]

\* bool(v): None, "" and [] are falsy.
Truthy(v) ==
    CASE v.type = "NoneType" -> FALSE
      [] v.type = "str" -> v.val # ""
      [] v.type = "list" -> v.val # <<>>
      [] v.type = "dict" -> v.keys # <<>>

\* a or b
PyOr(a, b) == IF Truthy(a) THEN a ELSE b

\* d.get(k)
Get(d, k) == IF k \in DOMAIN d.val THEN d.val[k] ELSE None

\* sep.join(strs), strs a sequence of TLA+ strings
RECURSIVE Join(_, _)
Join(sep, strs) ==
    IF strs = <<>> THEN ""
    ELSE IF Len(strs) = 1 THEN strs[1]
    ELSE strs[1] \o sep \o Join(sep, Tail(strs))

\* json.dumps(v) with the default separators; the strings of the model hold
\* no character that JSON escapes.
RECURSIVE json_dumps(_)
json_dumps(v) ==
    CASE v.type = "NoneType" -> "null"
      [] v.type = "str" -> "\"" \o v.val \o "\""
      [] v.type = "list" ->
            "[" \o Join(", ", [i \in 1..Len(v.val) |-> json_dumps(v.val[i])]) \o "]"
      [] v.type = "dict" ->
            "{" \o Join(", ", [i \in 1..Len(v.keys) |->
                    "\"" \o v.keys[i] \o "\": " \o json_dumps(v.val[v.keys[i]])]) \o "}"

(***************************************************************************)
(* normalize_results: the body of the loop, one definition per local.      *)
(***************************************************************************)
video_id(item) == PyOr(Get(item, "videoId"), Get(item, "videoId"))

\* skipped with `is None` in place of the truth test
skipped_whenAbsent(item) == video_id(item) = None

skipped(item) == ~Truthy(video_id(item))

\* title with the fallback given to dict.get, which an empty title does not take
title_getDefault(item) ==
    IF "title" \in DOMAIN item.val THEN item.val["title"] ELSE Str("Unknown title")

title(item) == PyOr(Get(item, "title"), Str("Unknown title"))

artists(item) == PyOr(Get(item, "artists"), List(<<>>))

\* [artist.get("name") for artist in artists if artist.get("name")]
artist_names(item) ==
    LET named == SelectSeq(artists(item).val, LAMBDA artist : Truthy(Get(artist, "name")))
    IN  [i \in 1..Len(named) |-> Get(named[i], "name").val]

\* channel with `author` tried before `artist`
channel_authorFirst(item) ==
    LET joined == Str(Join(", ", artist_names(item)))
    IN  IF ~Truthy(joined)
        THEN PyOr(PyOr(Get(item, "author"), Get(item, "artist")), Str("YouTube Music"))
        ELSE joined

\* channel without the final literal
channel_noLiteral(item) ==
    LET joined == Str(Join(", ", artist_names(item)))
    IN  IF ~Truthy(joined)
        THEN PyOr(Get(item, "artist"), Get(item, "author"))
        ELSE joined

channel(item) ==
    LET joined == Str(Join(", ", artist_names(item)))
    IN  IF ~Truthy(joined)
        THEN PyOr(PyOr(Get(item, "artist"), Get(item, "author")), Str("YouTube Music"))
        ELSE joined

thumbnails(item) == PyOr(Get(item, "thumbnails"), List(<<>>))

\* thumbnail_url with thumbnails[0]
thumbnail_url_first(item) ==
    IF Truthy(thumbnails(item))
    THEN Get(thumbnails(item).val[1], "url")
    ELSE None

\* thumbnail_url taken from the last thumbnail that has a url
thumbnail_url_lastWithUrl(item) ==
    LET withUrl == SelectSeq(thumbnails(item).val, LAMBDA t : Truthy(Get(t, "url")))
    IN  IF withUrl # <<>> THEN Get(withUrl[Len(withUrl)], "url") ELSE None

thumbnail_url(item) ==
    IF Truthy(thumbnails(item))
    THEN Get(thumbnails(item).val[Len(thumbnails(item).val)], "url")
    ELSE None

ResultKeys == <<"id", "title", "channel", "thumbnailUrl">>

normalized(item) ==
    Dict(ResultKeys,
         [id |-> video_id(item), title |-> title(item),
          channel |-> channel(item), thumbnailUrl |-> thumbnail_url(item)])

(***************************************************************************)
(* normalize_results: the steps of a call.                                 *)
(***************************************************************************)
\* NormEnter with `results` created once and reused by later calls
NormEnter_sharedResults ==
    /\ npc = "enter"
    /\ results' = IF results = None THEN List(<<>>) ELSE results
    /\ idx' = 1
    /\ npc' = "loop"
    /\ UNCHANGED <<items, log, mainVars>>

\* results = []
NormEnter ==
    /\ npc = "enter"
    /\ results' = List(<<>>)
    /\ idx' = 1
    /\ npc' = "loop"
    /\ UNCHANGED <<items, log, mainVars>>

\* one iteration of `for item in items`
NormIter ==
    /\ npc = "loop"
    /\ idx <= Len(items.val)
    /\ LET item == items.val[idx]
       IN  results' = IF skipped(item)
                      THEN results
                      ELSE List(Append(results.val, normalized(item)))
    /\ idx' = idx + 1
    /\ UNCHANGED <<items, npc, log, mainVars>>

\* return results
NormReturn ==
    /\ npc = "loop"
    /\ idx > Len(items.val)
    /\ npc' = "done"
    /\ log' = Append(log, [input |-> items, output |-> results])
    /\ UNCHANGED <<items, results, idx, mainVars>>

(***************************************************************************)
(* Raw records the collaborator can return.                                *)
(***************************************************************************)
SeqsUpTo(S, n) == UNION {[1..k -> S] : k \in 0..n}

KeyOrder == <<"videoId", "title", "artists", "artist", "author", "thumbnails", "name", "url">>

\* the dict with mapping f
DictOf(f) == Dict(SelectSeq(KeyOrder, LAMBDA k : k \in DOMAIN f), f)

\* key k absent, or present with one of the values vs
Opt(k, vs) == {<<>>} \cup {k :> v : v \in vs}

ArtistEntries == {DictOf(f) : f \in Opt("name", {Str(""), Str("X"), Str("Y")})}

ThumbEntries == {DictOf(f) : f \in Opt("url", {Str(""), Str("low.jpg"), Str("high.jpg")})}

PlainRecords == {DictOf(f) : f \in Opt("videoId", {Str(""), Str("a1"), Str("a2")})}

IdTitleRecords ==
    {DictOf(v @@ t) : v \in Opt("videoId", {Str(""), Str("a1"), Str("a2")}),
                      t \in Opt("title", {Str(""), Str("T")})}

ChannelRecords ==
    {DictOf(("videoId" :> Str("a1")) @@ a @@ b @@ c) :
        a \in Opt("artists", {List(q) : q \in SeqsUpTo(ArtistEntries, MaxArtists)}),
        b \in Opt("artist", {Str(""), Str("Solo Artist")}),
        c \in Opt("author", {Str(""), Str("Channel Name")})}

ThumbRecords ==
    {DictOf(("videoId" :> Str("a1")) @@ t) :
        t \in Opt("thumbnails", {List(q) : q \in SeqsUpTo(ThumbEntries, MaxThumbs)})}

RawRecords == IdTitleRecords \cup ChannelRecords \cup ThumbRecords

\* lists of at most MaxItems records: plain ones around at most one of RawRecords
Inputs ==
    {List(q) : q \in SeqsUpTo(PlainRecords, MaxItems)}
    \cup {List(t[2] \o <<t[1]>> \o t[3]) : t \in
           {<<r, p, s>> \in RawRecords \X SeqsUpTo(PlainRecords, MaxItems - 1)
                                      \X SeqsUpTo(PlainRecords, MaxItems - 1) :
               Len(p) + Len(s) < MaxItems}}


\* the records of the repeated-call harness: one that is kept, one that is dropped
PureRecords == {DictOf(f) : f \in Opt("videoId", {Str("a1")})}

PureInputs == {List(q) : q \in SeqsUpTo(PureRecords, MaxItems)}

\* a record with every field set
Song ==
    DictOf(("videoId" :> Str("a2")) @@ ("title" :> Str("T"))
           @@ ("artists" :> List(<<DictOf("name" :> Str("X"))>>))
           @@ ("thumbnails" :> List(<<DictOf("url" :> Str("high.jpg"))>>)))

SearchReturns == {List(q) : q \in SeqsUpTo(PureRecords \cup {Song}, MaxItems)}

(***************************************************************************)
(* A caller of normalize_results: binds the parameter and enters the call. *)
(***************************************************************************)
Caller(inputs, limit) ==
    /\ npc \in {"idle", "done"}
    /\ Len(log) < limit
    /\ \E input \in inputs : items' = input
    /\ npc' = "enter"
    /\ UNCHANGED <<results, idx, log, mainVars>>

CallOnce == Caller(Inputs, 1)

CallAgain == Caller(PureInputs, MaxCalls)

(***************************************************************************)
(* main                                                                    *)
(***************************************************************************)
PyInt(n) == [type |-> "int", val |-> n]

Program == "ytmusic_search.py"

ArgValues == {"lofi", "headers.json"}

SearchLimit == 8

UsageMessage == "Usage: ytmusic_search.py <query> <headers_path>"

too_few_args == Len(argv) < 3

\* MainUsage with sys.exit() in place of sys.exit(1)
MainUsage_exitZero ==
    /\ pc = "start"
    /\ too_few_args
    /\ stdout' = Append(stdout, json_dumps(Dict(<<"error">>, [error |-> Str(UsageMessage)])))
    /\ status' = PyInt(0)
    /\ pc' = "exited"
    /\ UNCHANGED <<argv, stderr, calls, items, results, idx, npc, log>>

\* print(json.dumps({"error": ...})); sys.exit(1)
MainUsage ==
    /\ pc = "start"
    /\ too_few_args
    /\ stdout' = Append(stdout, json_dumps(Dict(<<"error">>, [error |-> Str(UsageMessage)])))
    /\ status' = PyInt(1)
    /\ pc' = "exited"
    /\ UNCHANGED <<argv, stderr, calls, items, results, idx, npc, log>>

\* Uncaught with the failure caught and reported the way the usage error is
Uncaught_reported ==
    /\ stdout' = Append(stdout, json_dumps(Dict(<<"error">>, [error |-> Str("search failed")])))
    /\ status' = PyInt(1)
    /\ pc' = "exited"
    /\ UNCHANGED <<argv, stderr, items, results, idx, npc, log>>

\* an exception nothing catches: traceback on standard error, exit status 1
Uncaught ==
    /\ stderr' = Append(stderr, "Traceback (most recent call last):")
    /\ status' = PyInt(1)
    /\ pc' = "exited"
    /\ UNCHANGED <<argv, stdout, items, results, idx, npc, log>>

\* what a call of the collaborator did: it returned a value or it raised
Returned(v) == [raised |-> FALSE, value |-> v]

Raised == [raised |-> TRUE]

\* YTMusic(headers_path)
YTMusicCall(outcome) == [op |-> "YTMusic", auth |-> argv[3], outcome |-> outcome]

\* search_call with the two arguments taken in the wrong order
search_call_swapped(outcome) ==
    [op |-> "search", query |-> argv[3], filter |-> "songs", limit |-> SearchLimit,
     outcome |-> outcome]

\* ytmusic.search(query, filter="songs", limit=8)
search_call(outcome) ==
    [op |-> "search", query |-> argv[2], filter |-> "songs", limit |-> SearchLimit,
     outcome |-> outcome]

\* ytmusic = YTMusic(headers_path)
MainOpen ==
    /\ pc = "start"
    /\ ~too_few_args
    /\ calls' = Append(calls, YTMusicCall(Returned(None)))
    /\ pc' = "search"
    /\ UNCHANGED <<argv, stdout, stderr, status, items, results, idx, npc, log>>

\* YTMusic(headers_path) raises
MainOpenFails ==
    /\ pc = "start"
    /\ ~too_few_args
    /\ calls' = Append(calls, YTMusicCall(Raised))
    /\ Uncaught

\* items = ytmusic.search(query, filter="songs", limit=8)
MainSearch ==
    /\ pc = "search"
    /\ \E found \in SearchReturns :
          /\ calls' = Append(calls, search_call(Returned(found)))
          /\ items' = found
    /\ pc' = "normalize"
    /\ UNCHANGED <<argv, stdout, stderr, status, results, idx, npc, log>>

\* ytmusic.search(...) raises
MainSearchFails ==
    /\ pc = "search"
    /\ calls' = Append(calls, search_call(Raised))
    /\ Uncaught

\* the call of normalize_results(items)
MainNormalize ==
    /\ pc = "normalize"
    /\ npc = "idle"
    /\ npc' = "enter"
    /\ pc' = "print"
    /\ UNCHANGED <<argv, stdout, stderr, status, calls, items, results, idx, log>>

\* print(json.dumps({"results": results})), then the end of the script
MainPrint ==
    /\ pc = "print"
    /\ npc = "done"
    /\ stdout' = Append(stdout, json_dumps(Dict(<<"results">>, [results |-> results])))
    /\ status' = PyInt(0)
    /\ pc' = "exited"
    /\ UNCHANGED <<argv, stderr, calls, items, results, idx, npc, log>>

(***************************************************************************)
(* Specifications.                                                         *)
(***************************************************************************)
NormIdle ==
    /\ items = None
    /\ results = None
    /\ idx = 0
    /\ npc = "idle"
    /\ log = <<>>

\* one run of the program
Init ==
    /\ argv \in {<<Program>> \o a : a \in SeqsUpTo(ArgValues, MaxArgs)}
    /\ pc = "start"
    /\ stdout = <<>>
    /\ stderr = <<>>
    /\ status = None
    /\ calls = <<>>
    /\ NormIdle

Next ==
    \/ MainUsage
    \/ MainOpen
    \/ MainOpenFails
    \/ MainSearch
    \/ MainSearchFails
    \/ MainNormalize
    \/ NormEnter
    \/ NormIter
    \/ NormReturn
    \/ MainPrint

Spec == Init /\ [][Next]_vars

\* the interpreter runs the script until it exits
SpecFair == Spec /\ WF_vars(Next)

\* normalize_results called from outside main
InitHarness ==
    /\ argv = <<Program>>
    /\ pc = "harness"
    /\ stdout = <<>>
    /\ stderr = <<>>
    /\ status = None
    /\ calls = <<>>
    /\ NormIdle

\* one call, on any of Inputs
NextNorm == CallOnce \/ NormEnter \/ NormIter \/ NormReturn

SpecNorm == InitHarness /\ [][NextNorm]_vars

\* up to MaxCalls calls in a row, on any of PureInputs
NextPure == CallAgain \/ NormEnter \/ NormIter \/ NormReturn

SpecPure == InitHarness /\ [][NextPure]_vars

(***************************************************************************)
(* Properties of normalize_results, over its completed calls.              *)
(***************************************************************************)
\* field k of raw record r is present and not the empty string
Has(r, k) == k \in DOMAIN r.val /\ r.val[k] # Str("")

\* the records of input list `in` that carry an identifier, in order
Kept(in) == SelectSeq(in.val, LAMBDA r : Has(r, "videoId"))

\* every (raw record, output record) pair of every completed call satisfies P
EveryPair(P(_, _)) ==
    \A n \in DOMAIN log :
        \A k \in DOMAIN log[n].output.val \cap DOMAIN Kept(log[n].input) :
            P(Kept(log[n].input)[k], log[n].output.val[k].val)

\* some (raw record, output record) pair of some completed call satisfies P
SomePair(P(_, _)) ==
    \E n \in DOMAIN log :
        \E k \in DOMAIN log[n].output.val \cap DOMAIN Kept(log[n].input) :
            P(Kept(log[n].input)[k], log[n].output.val[k].val)

\* C1: the ids returned are the non-empty videoId values of the input, in
\* input order; the records without one are dropped and nothing else is,
\* so the output is shorter than the input by the number of dropped records.
C1_IdsAreKeptVideoIds ==
    \A n \in DOMAIN log :
        LET in == log[n].input.val
            out == log[n].output.val
            kept == Kept(log[n].input)
            dropped == {i \in DOMAIN in : ~Has(in[i], "videoId")}
        IN  /\ [k \in DOMAIN out |-> out[k].val["id"]]
                 = [k \in DOMAIN kept |-> kept[k].val["videoId"]]
            /\ Len(out) = Len(in) - Cardinality(dropped)

\* a call whose input holds a record with an empty videoId, one without
\* videoId, or both, next to a record that is kept
C1_Witness ==
    \E n \in DOMAIN log :
        LET in == log[n].input.val
            out == log[n].output.val
        IN  /\ Len(in) = MaxItems
            /\ \E i \in DOMAIN in : "videoId" \in DOMAIN in[i].val /\ ~Has(in[i], "videoId")
            /\ Has(in[Len(in)], "videoId")
            /\ Len(out) >= 1
            /\ out[Len(out)].val["id"] = in[Len(in)].val["videoId"]

\* the names of the entries of `artists` that have a non-empty name, in order
NamedArtists(r) ==
    IF "artists" \in DOMAIN r.val
    THEN LET named == SelectSeq(r.val["artists"].val, LAMBDA a : Has(a, "name"))
         IN  [i \in DOMAIN named |-> named[i].val["name"].val]
    ELSE <<>>

\* names, separated by ", "
RECURSIVE CommaSeparated(_)
CommaSeparated(names) ==
    IF names = <<>> THEN ""
    ELSE IF Len(names) = 1 THEN names[1]
    ELSE CommaSeparated(SubSeq(names, 1, Len(names) - 1)) \o ", " \o names[Len(names)]

ChannelOf(r) ==
    IF NamedArtists(r) # <<>> THEN Str(CommaSeparated(NamedArtists(r)))
    ELSE IF Has(r, "artist") THEN r.val["artist"]
    ELSE IF Has(r, "author") THEN r.val["author"]
    ELSE Str("YouTube Music")

\* C2: channel is the ", "-join of the non-empty artist names if there is
\* one, else `artist` if non-empty, else `author` if non-empty, else the
\* literal "YouTube Music".
C2_ChannelFallback == EveryPair(LAMBDA r, o : o["channel"] = ChannelOf(r))

\* a record whose artists have no name and whose artist and author are both
\* set: artist wins
C2_Witness ==
    SomePair(LAMBDA r, o :
        /\ "artists" \in DOMAIN r.val
        /\ r.val["artists"].val # <<>>
        /\ NamedArtists(r) = <<>>
        /\ Has(r, "artist")
        /\ Has(r, "author")
        /\ o["channel"] = Str("Solo Artist"))

\* C3: title is the input title when present and non-empty, else the literal
\* "Unknown title".
C3_TitleFallback ==
    EveryPair(LAMBDA r, o :
        o["title"] = IF Has(r, "title") THEN r.val["title"] ELSE Str("Unknown title"))

\* a kept record with an empty title
C3_Witness ==
    SomePair(LAMBDA r, o :
        /\ "title" \in DOMAIN r.val
        /\ r.val["title"] = Str("")
        /\ o["title"] = Str("Unknown title"))

\* the record has a non-empty thumbnails list
HasThumbnails(r) == "thumbnails" \in DOMAIN r.val /\ r.val["thumbnails"].val # <<>>

LastThumbnail(r) == r.val["thumbnails"].val[Len(r.val["thumbnails"].val)]

\* C4: with a non-empty thumbnails list thumbnailUrl is the url of its last
\* element, whatever the length; with thumbnails absent or empty it is null.
C4_LastThumbnail ==
    EveryPair(LAMBDA r, o :
        IF HasThumbnails(r)
        THEN "url" \in DOMAIN LastThumbnail(r).val
                => o["thumbnailUrl"] = LastThumbnail(r).val["url"]
        ELSE o["thumbnailUrl"] = None)

\* a record with several thumbnails whose first and last urls differ
C4_Witness ==
    SomePair(LAMBDA r, o :
        /\ HasThumbnails(r)
        /\ Len(r.val["thumbnails"].val) = MaxThumbs
        /\ r.val["thumbnails"].val[1] = DictOf("url" :> Str("low.jpg"))
        /\ LastThumbnail(r) = DictOf("url" :> Str("high.jpg"))
        /\ o["thumbnailUrl"] = Str("high.jpg"))

NonEmptyStr(v) == v.type = "str" /\ v.val # ""

\* C9: every returned record has exactly the fields id, title, channel and
\* thumbnailUrl; id, title and channel are non-empty strings, and
\* thumbnailUrl is a string or null.
C9_RecordShape ==
    \A n \in DOMAIN log :
        \A k \in DOMAIN log[n].output.val :
            LET o == log[n].output.val[k]
            IN  /\ o.type = "dict"
                /\ DOMAIN o.val = {"id", "title", "channel", "thumbnailUrl"}
                /\ Len(o.keys) = 4
                /\ {o.keys[i] : i \in DOMAIN o.keys} = DOMAIN o.val
                /\ NonEmptyStr(o.val["id"])
                /\ NonEmptyStr(o.val["title"])
                /\ NonEmptyStr(o.val["channel"])
                /\ o.val["thumbnailUrl"].type \in {"str", "NoneType"}

\* a record with nothing but its videoId: every other field is defaulted and
\* thumbnailUrl is null
C9_Witness ==
    SomePair(LAMBDA r, o :
        /\ DOMAIN r.val = {"videoId"}
        /\ o["title"] = Str("Unknown title")
        /\ o["channel"] = Str("YouTube Music")
        /\ o["thumbnailUrl"] = None)

\* C10: when the last thumbnail has no url, thumbnailUrl is null whatever
\* the earlier thumbnails carry, and the record is emitted all the same.
C10_NoEarlierThumbnail ==
    /\ EveryPair(LAMBDA r, o :
          (HasThumbnails(r) /\ "url" \notin DOMAIN LastThumbnail(r).val)
              => o["thumbnailUrl"] = None)
    /\ \A n \in DOMAIN log : Len(log[n].output.val) = Len(Kept(log[n].input))

\* a record whose first thumbnail has a url and whose last has none
C10_Witness ==
    SomePair(LAMBDA r, o :
        /\ HasThumbnails(r)
        /\ Len(r.val["thumbnails"].val) >= 2
        /\ "url" \in DOMAIN r.val["thumbnails"].val[1].val
        /\ "url" \notin DOMAIN LastThumbnail(r).val
        /\ o["thumbnailUrl"] = None)

\* C5: a call leaves its input as it was, and completed calls on equal
\* inputs returned equal outputs, whatever calls came before or between.
C5_Pure ==
    /\ [][(npc \in {"enter", "loop"}) => (items' = items)]_vars
    /\ [](\A i, j \in DOMAIN log :
             log[i].input = log[j].input => log[i].output = log[j].output)

\* two calls on one input with a non-empty result, a call on another input
\* between them
C5_Witness ==
    \E i, j, k \in DOMAIN log :
        /\ i < j /\ j < k
        /\ log[i].input = log[k].input
        /\ log[j].input # log[i].input
        /\ log[j].output.val # <<>>
        /\ log[i].output.val # <<>>
        /\ log[k].output = log[i].output

(***************************************************************************)
(* Properties of main.                                                     *)
(***************************************************************************)
UsageText == "{\"error\": \"Usage: ytmusic_search.py <query> <headers_path>\"}"

\* the number of command-line arguments
ArgCount == Len(argv) - 1

SomeCallRaised == \E i \in DOMAIN calls : calls[i].outcome.raised

SearchReturnedValue == Len(calls) = 2 /\ ~calls[2].outcome.raised

\* C6: with fewer than 2 arguments the program prints the usage error as
\* its only output, exits with status 1, and never calls the collaborator
\* nor normalises or prints results.
C6_UsageError ==
    /\ [](ArgCount < 2 =>
            /\ calls = <<>>
            /\ log = <<>>
            /\ npc = "idle"
            /\ pc \in {"start", "exited"}
            /\ pc = "start" => stdout = <<>> /\ status = None
            /\ pc = "exited" => stdout = <<UsageText>> /\ status = PyInt(1))
    /\ (ArgCount < 2 ~> pc = "exited")

\* a run with one argument that has exited
C6_Witness ==
    /\ ArgCount = 1
    /\ pc = "exited"
    /\ stdout = <<UsageText>>
    /\ status = PyInt(1)

\* C7: with at least 2 arguments the collaborator is opened from the second
\* argument's path and searched once, with the first argument, the filter
\* "songs" and the limit 8; nothing is printed before the search has
\* returned; what is printed is the one object {"results": R}, R being what
\* normalize_results returned for what the search returned; and once the
\* search has returned the program exits with status 0.
C7_SearchThenPrint ==
    /\ [](ArgCount >= 2 =>
            /\ Len(calls) <= 2
            /\ Len(calls) >= 1 =>
                  /\ calls[1].op = "YTMusic"
                  /\ calls[1].auth = argv[3]
            /\ Len(calls) = 2 =>
                  /\ calls[2].op = "search"
                  /\ calls[2].query = argv[2]
                  /\ calls[2].filter = "songs"
                  /\ calls[2].limit = 8
            /\ stdout # <<>> =>
                  /\ SearchReturnedValue
                  /\ Len(log) = 1
                  /\ log[1].input = calls[2].outcome.value
                  /\ stdout = <<json_dumps(Dict(<<"results">>, [results |-> log[1].output]))>>
                  /\ log[1].output.val = <<>> => stdout = <<"{\"results\": []}">>
                  /\ pc = "exited"
            /\ (pc = "exited" /\ ~SomeCallRaised) => Len(stdout) = 1 /\ status = PyInt(0))
    /\ ((ArgCount >= 2 /\ SearchReturnedValue)
            ~> (pc = "exited" /\ status = PyInt(0) /\ Len(stdout) = 1))

\* a finished run whose two arguments differ and whose search returned one
\* record with nothing but an id
C7_Witness ==
    /\ ArgCount >= 2
    /\ argv[2] # argv[3]
    /\ pc = "exited"
    /\ status = PyInt(0)
    /\ SearchReturnedValue
    /\ calls[2].outcome.value = List(<<DictOf("videoId" :> Str("a1"))>>)
    /\ stdout = <<"{\"results\": [{\"id\": \"a1\", \"title\": \"Unknown title\", "
                  \o "\"channel\": \"YouTube Music\", \"thumbnailUrl\": null}]}">>

\* C8: when a call of the collaborator raises, that call is the last one,
\* the process has exited with a non-zero status, the search was attempted
\* at most once, and nothing was printed to standard output.
C8_FailurePropagates ==
    /\ Cardinality({i \in DOMAIN calls : calls[i].op = "search"}) <= 1
    /\ SomeCallRaised =>
          /\ \A i \in DOMAIN calls : calls[i].outcome.raised => i = Len(calls)
          /\ pc = "exited"
          /\ status.type = "int"
          /\ status.val # 0
          /\ stdout = <<>>
          /\ log = <<>>
          /\ npc = "idle"

\* a run whose search call raised, after the collaborator was opened
C8_Witness ==
    /\ Len(calls) = 2
    /\ ~calls[1].outcome.raised
    /\ calls[2].op = "search"
    /\ calls[2].outcome.raised
    /\ pc = "exited"
    /\ stderr # <<>>

====
